---- MODULE Spec2Model ----
(***************************************************************************)
(* SPOT GPS Gen 2 controller (SPOT2_Controller.ino).                       *)
(*                                                                         *)
(* The sketch sleeps in power-down mode, is woken every 8 s by the         *)
(* watchdog interrupt, counts the wake-ups in counter8s and, when the      *)
(* count reaches q8SecondBlocks, runs one step of the state machine        *)
(* action(), which presses one button of the SPOT device.                  *)
(*                                                                         *)
(* pc is the position of the (single) thread of control:                   *)
(*   "loop"        loop() entered, EightSeconds() about to be called (89)  *)
(*   "es_test"     in EightSeconds(), counter8s++ done, test next (129)    *)
(*   "action"      action() entered, switch about to dispatch (139)        *)
(*   "on_check"    Spot_Turn_On entered, first sense read next (191)       *)
(*   "on_poll"     Spot_Turn_On poll loop, button held (203)               *)
(*   "on_wait"     Spot_Turn_On loop body, in delay(100) (205)             *)
(*   "off_check"   Spot_Turn_Off entered (226)                             *)
(*   "off_poll"    Spot_Turn_Off poll loop, button held (240)              *)
(*   "off_wait"    Spot_Turn_Off loop body, in delay(100) (242)            *)
(*   "ok_press"    Spot_Message_OK entered (262)                           *)
(*   "ok_hold"     Spot_Message_OK in delay(4000), button held (270)       *)
(*   "cu_press"    Spot_Message_Custom entered (288)                       *)
(*   "cu_hold"     Spot_Message_Custom in delay(4000) (296)                *)
(*   "act_set"     the primitive returned, the case's assignments next     *)
(*   "es_ret"      EightSeconds() returned to loop() (91)                  *)
(*   "sleep"       in sleep_cpu() (110)                                    *)
(* sample is the value the last digitalRead(SpotOn3VSense) returned.       *)
(***************************************************************************)
EXTENDS Integers, Sequences, FiniteSets, TLC

VARIABLES pc, counter8s, SpotGPSState, q8SecondBlocks,
          SpotOn3VSense, SpotOnOffButton, SpotOkMsgButton, SpotCustomMsgButton,
          LED, wdtEnabled, devHandled, ticks, log, nAction, nPrim,
          sample, wdtFed, fires

vars == <<pc, counter8s, SpotGPSState, q8SecondBlocks,
          SpotOn3VSense, SpotOnOffButton, SpotOkMsgButton, SpotCustomMsgButton,
          LED, wdtEnabled, devHandled, ticks, log, nAction, nPrim,
          sample, wdtFed, fires>>

(* the globals of the sketch *)
prog == <<counter8s, SpotGPSState, q8SecondBlocks>>
(* the output lines *)
lines == <<SpotOnOffButton, SpotOkMsgButton, SpotCustomMsgButton, LED>>
(* the SPOT device *)
device == <<SpotOn3VSense, devHandled>>
(* the history of the run *)
hist == <<ticks, log, nAction, nPrim>>
(* the watchdog: armed or not, wdt_reset() executed since time last passed, *)
(* number of times it has fired                                            *)
wdt == <<wdtEnabled, wdtFed, fires>>

----------------------------------------------------------------------------
(* Bounds of the model *)

\* number of EightSeconds() invocations explored
MaxTicks == 400
\* largest value SpotGPSState is forced to by the test driver (6.. are
\* outside the enumeration)
MaxStateValue == 7
\* number of action() invocations made by the test driver
MaxCalls == 3

----------------------------------------------------------------------------
(* Program constants *)

kSpotOffTime == 60
kSpotOnTime == 38

Power_Off == 0
Power_On == 1
Sending_Ok == 2
Power_Off_2 == 3
Power_On_2 == 4
Sending_Custom == 5

SpotGPSState_Type == {Power_Off, Power_On, Sending_Ok,
                      Power_Off_2, Power_On_2, Sending_Custom}

----------------------------------------------------------------------------
(* action(): the switch, as three tables indexed by the state on entry *)

\* the Custom case presses the OK button (a copied case left unedited)
ActionPrimitiveCopied(s) ==
  CASE s = Power_Off      -> "Spot_Turn_On"
    [] s = Power_On       -> "Spot_Message_OK"
    [] s = Sending_Ok     -> "Spot_Turn_Off"
    [] s = Power_Off_2    -> "Spot_Turn_On"
    [] s = Power_On_2     -> "Spot_Message_OK"
    [] s = Sending_Custom -> "Spot_Turn_Off"
    [] OTHER              -> "Spot_Turn_Off"

\* the primitive the case calls
ActionPrimitive(s) ==
  CASE s = Power_Off      -> "Spot_Turn_On"
    [] s = Power_On       -> "Spot_Message_OK"
    [] s = Sending_Ok     -> "Spot_Turn_Off"
    [] s = Power_Off_2    -> "Spot_Turn_On"
    [] s = Power_On_2     -> "Spot_Message_Custom"
    [] s = Sending_Custom -> "Spot_Turn_Off"
    [] OTHER              -> "Spot_Turn_Off"

\* the second half of the cycle goes back to its own start
ActionNextStateHalf(s) ==
  CASE s = Power_Off      -> Power_On
    [] s = Power_On       -> Sending_Ok
    [] s = Sending_Ok     -> Power_Off_2
    [] s = Power_Off_2    -> Power_On_2
    [] s = Power_On_2     -> Sending_Custom
    [] s = Sending_Custom -> Power_Off_2
    [] OTHER              -> Power_Off

\* no default case: an unrecognized state is left as it is
ActionNextStateNoDefault(s) ==
  CASE s = Power_Off      -> Power_On
    [] s = Power_On       -> Sending_Ok
    [] s = Sending_Ok     -> Power_Off_2
    [] s = Power_Off_2    -> Power_On_2
    [] s = Power_On_2     -> Sending_Custom
    [] s = Sending_Custom -> Power_Off
    [] OTHER              -> s

\* one message only: back to Power_Off after the first half
ActionNextStateNoSecond(s) ==
  CASE s = Power_Off      -> Power_On
    [] s = Power_On       -> Sending_Ok
    [] s = Sending_Ok     -> Power_Off
    [] s = Power_Off_2    -> Power_On_2
    [] s = Power_On_2     -> Sending_Custom
    [] s = Sending_Custom -> Power_Off
    [] OTHER              -> Power_Off

\* the value the case assigns to SpotGPSState
ActionNextState(s) ==
  CASE s = Power_Off      -> Power_On
    [] s = Power_On       -> Sending_Ok
    [] s = Sending_Ok     -> Power_Off_2
    [] s = Power_Off_2    -> Power_On_2
    [] s = Power_On_2     -> Sending_Custom
    [] s = Sending_Custom -> Power_Off
    [] OTHER              -> Power_Off

\* the threshold chosen by the state left instead of the state entered
ActionBlocksOfOldState(s) ==
  CASE s = Power_Off      -> kSpotOffTime
    [] s = Power_On       -> 1
    [] s = Sending_Ok     -> kSpotOnTime
    [] s = Power_Off_2    -> kSpotOffTime
    [] s = Power_On_2     -> 1
    [] s = Sending_Custom -> kSpotOnTime
    [] OTHER              -> kSpotOffTime

\* the off dwell used for the send dwell as well
ActionBlocksAllOff(s) ==
  CASE s = Power_Off      -> 1
    [] s = Power_On       -> kSpotOffTime
    [] s = Sending_Ok     -> kSpotOffTime
    [] s = Power_Off_2    -> 1
    [] s = Power_On_2     -> kSpotOffTime
    [] s = Sending_Custom -> kSpotOffTime
    [] OTHER              -> kSpotOffTime

\* no settle tick after the second power-on
ActionBlocksNoSettle(s) ==
  CASE s = Power_Off      -> 1
    [] s = Power_On       -> kSpotOnTime
    [] s = Sending_Ok     -> kSpotOffTime
    [] s = Power_Off_2    -> kSpotOnTime
    [] s = Power_On_2     -> kSpotOnTime
    [] s = Sending_Custom -> kSpotOffTime
    [] OTHER              -> kSpotOffTime

\* the on time and the off time exchanged
ActionBlocksSwapped(s) ==
  CASE s = Power_Off      -> 1
    [] s = Power_On       -> kSpotOffTime
    [] s = Sending_Ok     -> kSpotOnTime
    [] s = Power_Off_2    -> 1
    [] s = Power_On_2     -> kSpotOffTime
    [] s = Sending_Custom -> kSpotOnTime
    [] OTHER              -> kSpotOffTime

\* the value the case assigns to q8SecondBlocks
ActionBlocks(s) ==
  CASE s = Power_Off      -> 1
    [] s = Power_On       -> kSpotOnTime
    [] s = Sending_Ok     -> kSpotOffTime
    [] s = Power_Off_2    -> 1
    [] s = Power_On_2     -> kSpotOnTime
    [] s = Sending_Custom -> kSpotOffTime
    [] OTHER              -> kSpotOffTime

\* the first position of each primitive
PrimEntry(p) ==
  CASE p = "Spot_Turn_On"        -> "on_check"
    [] p = "Spot_Turn_Off"       -> "off_check"
    [] p = "Spot_Message_OK"     -> "ok_press"
    [] p = "Spot_Message_Custom" -> "cu_press"

----------------------------------------------------------------------------
(* setup() *)

Init ==
  /\ pc = "loop"
  /\ counter8s = 0
  /\ SpotGPSState = Power_Off
  /\ q8SecondBlocks = 1
  /\ SpotOn3VSense \in {"LOW", "HIGH"}
  /\ SpotOnOffButton = "INPUT"
  /\ SpotOkMsgButton = "INPUT"
  /\ SpotCustomMsgButton = "INPUT"
  /\ LED = "INPUT"
  /\ wdtEnabled = FALSE
  /\ devHandled = FALSE
  /\ ticks = 0
  /\ log = << >>
  /\ nAction = 0
  /\ nPrim = 0
  /\ sample = "NONE"
  /\ wdtFed = FALSE
  /\ fires = 0

----------------------------------------------------------------------------
(* EightSeconds() *)

\* loop() calls EightSeconds(); counter8s++
EightSecondsInc ==
  /\ pc = "loop"
  /\ ticks < MaxTicks
  /\ counter8s' = counter8s + 1
  /\ ticks' = ticks + 1
  /\ nAction' = 0
  /\ pc' = "es_test"
  /\ UNCHANGED <<SpotGPSState, q8SecondBlocks, lines, device, wdt, sample,
                 log, nPrim>>

\* the test with > for >=
ActionDueStrict(c, q) == c > q

\* the test of EightSeconds()
ActionDue(c, q) == c >= q

\* action() called on every tick, outside the if
EightSecondsTestAlways ==
  /\ pc = "es_test"
  /\ counter8s' = IF ActionDue(counter8s, q8SecondBlocks)
                    THEN 0 ELSE counter8s
  /\ nAction' = nAction + 1
  /\ nPrim' = 0
  /\ pc' = "action"
  /\ UNCHANGED <<SpotGPSState, q8SecondBlocks, lines, device, wdt, sample,
                 ticks, log>>

\* if (counter8s >= q8SecondBlocks) { counter8s = 0; action(); }
EightSecondsTest ==
  /\ pc = "es_test"
  /\ IF ActionDue(counter8s, q8SecondBlocks)
       THEN /\ counter8s' = 0
            /\ nAction' = nAction + 1
            /\ nPrim' = 0
            /\ pc' = "action"
       ELSE /\ pc' = "es_ret"
            /\ UNCHANGED <<counter8s, nAction, nPrim>>
  /\ UNCHANGED <<SpotGPSState, q8SecondBlocks, lines, device, wdt, sample,
                 ticks, log>>

----------------------------------------------------------------------------
(* action() *)

\* the case assigns the state and the threshold before it calls
ActionCallAfterSet ==
  /\ pc = "action"
  /\ pc' = PrimEntry(ActionPrimitive(SpotGPSState))
  /\ log' = Append(log, [tick |-> ticks,
                         state |-> SpotGPSState,
                         blocks |-> q8SecondBlocks,
                         prim |-> ActionPrimitive(SpotGPSState)])
  /\ nPrim' = nPrim + 1
  /\ SpotGPSState' = ActionNextState(SpotGPSState)
  /\ q8SecondBlocks' = ActionBlocks(SpotGPSState)
  /\ UNCHANGED <<counter8s, lines, device, wdt, sample, ticks, nAction>>

\* switch (SpotGPSState): the case calls its primitive
ActionCall ==
  /\ pc = "action"
  /\ pc' = PrimEntry(ActionPrimitive(SpotGPSState))
  /\ log' = Append(log, [tick |-> ticks,
                         state |-> SpotGPSState,
                         blocks |-> q8SecondBlocks,
                         prim |-> ActionPrimitive(SpotGPSState)])
  /\ nPrim' = nPrim + 1
  /\ UNCHANGED <<prog, lines, device, wdt, sample, ticks, nAction>>

\* the primitive returned: SpotGPSState = ...; q8SecondBlocks = ...; break;
ActionSet ==
  /\ pc = "act_set"
  /\ SpotGPSState' = ActionNextState(SpotGPSState)
  /\ q8SecondBlocks' = ActionBlocks(SpotGPSState)
  /\ pc' = "es_ret"
  /\ UNCHANGED <<counter8s, lines, device, wdt, sample, hist>>

----------------------------------------------------------------------------
(* Spot_Turn_On() *)

\* the button pressed without looking at the sense line first
SpotTurnOnCheckAlways ==
  /\ pc = "on_check"
  /\ SpotOnOffButton' = "LOW"
  /\ LED' = "HIGH"
  /\ devHandled' = FALSE
  /\ pc' = "on_poll"
  /\ UNCHANGED <<prog, SpotOn3VSense, SpotOkMsgButton, SpotCustomMsgButton,
                 wdt, sample, hist>>

\* if (digitalRead(SpotOn3VSense) == LOW) { press the button, LED on
SpotTurnOnCheck ==
  /\ pc = "on_check"
  /\ sample' = SpotOn3VSense
  /\ IF SpotOn3VSense = "LOW"
       THEN /\ SpotOnOffButton' = "LOW"
            /\ LED' = "HIGH"
            /\ devHandled' = FALSE
            /\ pc' = "on_poll"
       ELSE /\ pc' = "act_set"
            /\ UNCHANGED <<SpotOnOffButton, LED, devHandled>>
  /\ UNCHANGED <<prog, SpotOn3VSense, SpotOkMsgButton, SpotCustomMsgButton,
                 wdt, hist>>

\* a press of fixed length: the button released whatever the sample
SpotTurnOnPollNoWait ==
  /\ pc = "on_poll"
  /\ sample' = SpotOn3VSense
  /\ SpotOnOffButton' = "INPUT"
  /\ LED' = "INPUT"
  /\ pc' = "act_set"
  /\ UNCHANGED <<prog, device, SpotOkMsgButton, SpotCustomMsgButton,
                 wdt, hist>>

\* while (digitalRead(SpotOn3VSense) == LOW): one evaluation of the
\* condition; when it fails the button is released and the LED put out
SpotTurnOnPoll ==
  /\ pc = "on_poll"
  /\ sample' = SpotOn3VSense
  /\ IF SpotOn3VSense = "LOW"
       THEN /\ pc' = "on_wait"
            /\ UNCHANGED <<SpotOnOffButton, LED>>
       ELSE /\ SpotOnOffButton' = "INPUT"
            /\ LED' = "INPUT"
            /\ pc' = "act_set"
  /\ UNCHANGED <<prog, device, SpotOkMsgButton, SpotCustomMsgButton,
                 wdt, hist>>

\* the body of the loop: delay(100); wdt_reset();
SpotTurnOnWait ==
  /\ pc = "on_wait"
  /\ wdtFed' = TRUE
  /\ pc' = "on_poll"
  /\ UNCHANGED <<prog, lines, device, wdtEnabled, fires, sample, hist>>

----------------------------------------------------------------------------
(* Spot_Turn_Off() *)

\* the sense line tested for the wrong level
SpotTurnOffCheckLow ==
  /\ pc = "off_check"
  /\ sample' = SpotOn3VSense
  /\ IF SpotOn3VSense = "LOW"
       THEN /\ SpotOnOffButton' = "LOW"
            /\ LED' = "HIGH"
            /\ devHandled' = FALSE
            /\ pc' = "off_poll"
       ELSE /\ pc' = "act_set"
            /\ UNCHANGED <<SpotOnOffButton, LED, devHandled>>
  /\ UNCHANGED <<prog, SpotOn3VSense, SpotOkMsgButton, SpotCustomMsgButton,
                 wdt, hist>>

\* if (digitalRead(SpotOn3VSense) == HIGH) { press the button, LED on
SpotTurnOffCheck ==
  /\ pc = "off_check"
  /\ sample' = SpotOn3VSense
  /\ IF SpotOn3VSense = "HIGH"
       THEN /\ SpotOnOffButton' = "LOW"
            /\ LED' = "HIGH"
            /\ devHandled' = FALSE
            /\ pc' = "off_poll"
       ELSE /\ pc' = "act_set"
            /\ UNCHANGED <<SpotOnOffButton, LED, devHandled>>
  /\ UNCHANGED <<prog, SpotOn3VSense, SpotOkMsgButton, SpotCustomMsgButton,
                 wdt, hist>>

SpotTurnOffPoll ==
  /\ pc = "off_poll"
  /\ sample' = SpotOn3VSense
  /\ IF SpotOn3VSense = "HIGH"
       THEN /\ pc' = "off_wait"
            /\ UNCHANGED <<SpotOnOffButton, LED>>
       ELSE /\ SpotOnOffButton' = "INPUT"
            /\ LED' = "INPUT"
            /\ pc' = "act_set"
  /\ UNCHANGED <<prog, device, SpotOkMsgButton, SpotCustomMsgButton,
                 wdt, hist>>

\* the loop given up after one delay: the button released, return
SpotTurnOffWaitOnce ==
  /\ pc = "off_wait"
  /\ wdtFed' = TRUE
  /\ SpotOnOffButton' = "INPUT"
  /\ LED' = "INPUT"
  /\ pc' = "act_set"
  /\ UNCHANGED <<prog, device, SpotOkMsgButton, SpotCustomMsgButton,
                 wdtEnabled, fires, sample, hist>>

\* the body of the loop: delay(100); wdt_reset();
SpotTurnOffWait ==
  /\ pc = "off_wait"
  /\ wdtFed' = TRUE
  /\ pc' = "off_poll"
  /\ UNCHANGED <<prog, lines, device, wdtEnabled, fires, sample, hist>>

----------------------------------------------------------------------------
(* Spot_Message_OK() and Spot_Message_Custom() *)

SpotMessageOKPress ==
  /\ pc = "ok_press"
  /\ SpotOkMsgButton' = "LOW"
  /\ LED' = "HIGH"
  /\ pc' = "ok_hold"
  /\ UNCHANGED <<prog, device, SpotOnOffButton, SpotCustomMsgButton,
                 wdt, sample, hist>>

\* the OK button left driven after the hold
SpotMessageOKNoRelease ==
  /\ pc = "ok_hold"
  /\ LED' = "INPUT"
  /\ wdtFed' = FALSE
  /\ pc' = "act_set"
  /\ UNCHANGED <<prog, device, SpotOnOffButton, SpotOkMsgButton,
                 SpotCustomMsgButton, wdtEnabled, fires, sample, hist>>

\* delay(4000); release the OK button, LED off
SpotMessageOKRelease ==
  /\ pc = "ok_hold"
  /\ SpotOkMsgButton' = "INPUT"
  /\ LED' = "INPUT"
  /\ wdtFed' = FALSE
  /\ pc' = "act_set"
  /\ UNCHANGED <<prog, device, SpotOnOffButton, SpotCustomMsgButton,
                 wdtEnabled, fires, sample, hist>>

SpotMessageCustomPress ==
  /\ pc = "cu_press"
  /\ SpotCustomMsgButton' = "LOW"
  /\ LED' = "HIGH"
  /\ pc' = "cu_hold"
  /\ UNCHANGED <<prog, device, SpotOnOffButton, SpotOkMsgButton,
                 wdt, sample, hist>>

SpotMessageCustomRelease ==
  /\ pc = "cu_hold"
  /\ SpotCustomMsgButton' = "INPUT"
  /\ LED' = "INPUT"
  /\ wdtFed' = FALSE
  /\ pc' = "act_set"
  /\ UNCHANGED <<prog, device, SpotOnOffButton, SpotOkMsgButton,
                 wdtEnabled, fires, sample, hist>>

----------------------------------------------------------------------------
(* loop(): arming the watchdog, sleeping, the watchdog interrupt *)

\* sleep_cpu() left out: loop() returns at once and is entered again
LoopArmNoSleep ==
  /\ pc = "es_ret"
  /\ wdtEnabled' = TRUE
  /\ wdtFed' = TRUE
  /\ pc' = "loop"
  /\ UNCHANGED <<prog, lines, device, fires, sample, hist>>

\* the watchdog left as the interrupt handler left it
LoopSleepNoArm ==
  /\ pc = "es_ret"
  /\ wdtFed' = TRUE
  /\ pc' = "sleep"
  /\ UNCHANGED <<prog, lines, device, wdtEnabled, fires, sample, hist>>

\* WDTCSR = bit(WDIE) | bit(WDP3) | bit(WDP0); wdt_reset(); ... sleep_cpu();
LoopArmAndSleep ==
  /\ pc = "es_ret"
  /\ wdtEnabled' = TRUE
  /\ wdtFed' = TRUE
  /\ pc' = "sleep"
  /\ UNCHANGED <<prog, lines, device, fires, sample, hist>>

\* an interrupt handler that leaves the watchdog running
WDT_vectNoDisable ==
  /\ pc = "sleep"
  /\ wdtEnabled
  /\ wdtFed' = FALSE
  /\ fires' = fires + 1
  /\ pc' = "loop"
  /\ UNCHANGED <<prog, lines, device, wdtEnabled, sample, hist>>

\* the watchdog fires after 8 s: ISR(WDT_vect) disables it, sleep_cpu()
\* returns, loop() returns and is entered again
WDT_vect ==
  /\ pc = "sleep"
  /\ wdtEnabled
  /\ wdtEnabled' = FALSE
  /\ wdtFed' = FALSE
  /\ fires' = fires + 1
  /\ pc' = "loop"
  /\ UNCHANGED <<prog, lines, device, sample, hist>>

----------------------------------------------------------------------------
(* The SPOT device: a held power switch toggles its power, once per press, *)
(* and the switched 3 V line follows.  It may also not respond at all.     *)

SpotDevicePower ==
  /\ SpotOnOffButton = "LOW"
  /\ ~devHandled
  /\ SpotOn3VSense' = IF SpotOn3VSense = "LOW" THEN "HIGH" ELSE "LOW"
  /\ devHandled' = TRUE
  /\ UNCHANGED <<pc, prog, lines, wdt, sample, hist>>

----------------------------------------------------------------------------

Next ==
  \/ EightSecondsInc
  \/ EightSecondsTest
  \/ ActionCall
  \/ ActionSet
  \/ SpotTurnOnCheck
  \/ SpotTurnOnPoll
  \/ SpotTurnOnWait
  \/ SpotTurnOffCheck
  \/ SpotTurnOffPoll
  \/ SpotTurnOffWait
  \/ SpotMessageOKPress
  \/ SpotMessageOKRelease
  \/ SpotMessageCustomPress
  \/ SpotMessageCustomRelease
  \/ LoopArmAndSleep
  \/ WDT_vect
  \/ SpotDevicePower

Spec == Init /\ [][Next]_vars

----------------------------------------------------------------------------
(* action() called directly, as a unit under test: SpotGPSState is forced  *)
(* to any value, inside or outside the enumeration, before each call.      *)

InitForced ==
  /\ pc = "action"
  /\ counter8s = 0
  /\ SpotGPSState \in 0..MaxStateValue
  /\ q8SecondBlocks = 1
  /\ SpotOn3VSense \in {"LOW", "HIGH"}
  /\ SpotOnOffButton = "INPUT"
  /\ SpotOkMsgButton = "INPUT"
  /\ SpotCustomMsgButton = "INPUT"
  /\ LED = "INPUT"
  /\ wdtEnabled = FALSE
  /\ devHandled = FALSE
  /\ ticks = 0
  /\ log = << >>
  /\ nAction = 1
  /\ nPrim = 0
  /\ sample = "NONE"
  /\ wdtFed = FALSE
  /\ fires = 0

\* action() returned; force SpotGPSState to s and call action() again
ForcedCall(s) ==
  /\ pc = "es_ret"
  /\ Len(log) < MaxCalls
  /\ SpotGPSState' = s
  /\ nPrim' = 0
  /\ pc' = "action"
  /\ UNCHANGED <<counter8s, q8SecondBlocks, lines, device, wdt, sample,
                 ticks, log, nAction>>

NextForced ==
  \/ \E s \in 0..MaxStateValue : ForcedCall(s)
  \/ ActionCall
  \/ ActionSet
  \/ SpotTurnOnCheck
  \/ SpotTurnOnPoll
  \/ SpotTurnOnWait
  \/ SpotTurnOffCheck
  \/ SpotTurnOffPoll
  \/ SpotTurnOffWait
  \/ SpotMessageOKPress
  \/ SpotMessageOKRelease
  \/ SpotMessageCustomPress
  \/ SpotMessageCustomRelease
  \/ SpotDevicePower

SpecForced == InitForced /\ [][NextForced]_vars

----------------------------------------------------------------------------
(* The sketch run forever.  The history of the run (ticks, log, fires) is  *)
(* not kept, everything else is as above, so the behaviours are infinite   *)
(* over finitely many states and what the sketch eventually does can be    *)
(* checked.                                                                *)

\* loop() calls EightSeconds(); counter8s++
EightSecondsIncLive ==
  /\ pc = "loop"
  /\ counter8s' = counter8s + 1
  /\ nAction' = 0
  /\ pc' = "es_test"
  /\ UNCHANGED <<SpotGPSState, q8SecondBlocks, lines, device, wdt, sample,
                 ticks, log, nPrim>>

\* switch (SpotGPSState): the case calls its primitive
ActionCallLive ==
  /\ pc = "action"
  /\ pc' = PrimEntry(ActionPrimitive(SpotGPSState))
  /\ nPrim' = nPrim + 1
  /\ UNCHANGED <<prog, lines, device, wdt, sample, ticks, log, nAction>>

\* the watchdog fires after 8 s: ISR(WDT_vect) disables it, sleep_cpu()
\* returns, loop() returns and is entered again
WDT_vectLive ==
  /\ pc = "sleep"
  /\ wdtEnabled
  /\ wdtEnabled' = FALSE
  /\ wdtFed' = FALSE
  /\ pc' = "loop"
  /\ UNCHANGED <<prog, lines, device, fires, sample, hist>>

\* the steps of the processor while it is awake
ProgramLive ==
  \/ EightSecondsIncLive
  \/ EightSecondsTest
  \/ ActionCallLive
  \/ ActionSet
  \/ SpotTurnOnCheck
  \/ SpotTurnOnPoll
  \/ SpotTurnOnWait
  \/ SpotTurnOffCheck
  \/ SpotTurnOffPoll
  \/ SpotTurnOffWait
  \/ SpotMessageOKPress
  \/ SpotMessageOKRelease
  \/ SpotMessageCustomPress
  \/ SpotMessageCustomRelease
  \/ LoopArmAndSleep

NextLive ==
  \/ ProgramLive
  \/ WDT_vectLive
  \/ SpotDevicePower

\* an awake processor executes its next instruction and an armed watchdog
\* fires; nothing is assumed of the SPOT device
SpecLive ==
  /\ Init
  /\ [][NextLive]_vars
  /\ WF_vars(ProgramLive)
  /\ WF_vars(WDT_vectLive)

\* in addition the SPOT device answers a press of its power switch
SpecLiveResponsive == SpecLive /\ WF_vars(SpotDevicePower)

----------------------------------------------------------------------------
(* Vocabulary of the properties *)

Last(q) == q[Len(q)]

\* positions inside a Device Action Primitive
InPrimitive == {"on_check", "on_poll", "on_wait",
                "off_check", "off_poll", "off_wait",
                "ok_press", "ok_hold", "cu_press", "cu_hold"}

\* positions where EightSeconds() has returned
TickReturned == {"es_ret", "sleep", "loop"}

\* number of action() invocations that have run to completion
Completed == IF pc \in InPrimitive \cup {"act_set"}
               THEN Len(log) - 1 ELSE Len(log)

----------------------------------------------------------------------------
(* C1 *)

\* the transition table of the state machine, row by row:
\* current state, primitive performed, next state, new threshold
TransitionTable ==
  { <<Power_Off,      "Spot_Turn_On",        Power_On,       1>>,
    <<Power_On,       "Spot_Message_OK",     Sending_Ok,     kSpotOnTime>>,
    <<Sending_Ok,     "Spot_Turn_Off",       Power_Off_2,    kSpotOffTime>>,
    <<Power_Off_2,    "Spot_Turn_On",        Power_On_2,     1>>,
    <<Power_On_2,     "Spot_Message_Custom", Sending_Custom, kSpotOnTime>>,
    <<Sending_Custom, "Spot_Turn_Off",       Power_Off,      kSpotOffTime>> }

\* the step that ends an invocation of action() is a row of the table, and
\* exactly one primitive was invoked during the invocation
C1_Step ==
  (pc = "act_set" /\ pc' = "es_ret") =>
     /\ nPrim = 1
     /\ Len(log) >= 1
     /\ Last(log).tick = ticks
     /\ Last(log).state = SpotGPSState
     /\ <<SpotGPSState, Last(log).prim, SpotGPSState', q8SecondBlocks'>>
           \in TransitionTable

\* never more than one primitive per invocation, never none once one is
\* running or has returned, and only the six defined states occur
C1_Inv ==
  /\ SpotGPSState \in SpotGPSState_Type
  /\ nPrim \in {0, 1}
  /\ pc \in InPrimitive \cup {"act_set"} => nPrim = 1
  /\ (pc = "es_ret" /\ nAction = 1) => nPrim = 1

\* C1: for each of the six defined states one invocation of action()
\* performs exactly one primitive and moves to exactly one successor with
\* the threshold of the transition table
C1_Thm == [] C1_Inv /\ [][C1_Step]_vars

\* the sixth transition has been taken: every row of the table was used
C1_Wit ==
  /\ pc = "es_ret"
  /\ Len(log) = 6
  /\ { log[i].state : i \in 1..6 } = SpotGPSState_Type
  /\ SpotGPSState = Power_Off
  /\ q8SecondBlocks = kSpotOffTime

----------------------------------------------------------------------------
(* C2 *)

\* the order of the primitives in one cycle
CycleOrder == << "Spot_Turn_On", "Spot_Message_OK", "Spot_Turn_Off",
                 "Spot_Turn_On", "Spot_Message_Custom", "Spot_Turn_Off" >>

\* C2: starting from Power_Off, the primitives are invoked in the order
\* on, message OK, off, on, message Custom, off, cycle after cycle, and the
\* machine is in Power_Off exactly after every sixth completed invocation
C2_Thm ==
  /\ \A i \in 1..Len(log) : log[i].prim = CycleOrder[((i - 1) % 6) + 1]
  /\ (SpotGPSState = Power_Off) <=> (Completed % 6 = 0)

\* two full cycles are complete, the second ending with the Custom message
\* after the OK message of the first and of the second
C2_Wit ==
  /\ pc = "es_ret"
  /\ Len(log) = 12
  /\ SpotGPSState = Power_Off
  /\ log[11].prim = "Spot_Message_Custom"

----------------------------------------------------------------------------
(* C3 *)

\* between invocations of EightSeconds() the counter is below the
\* threshold; inside it the incremented counter is at most the threshold;
\* while a transition runs the counter is 0
C3_Inv ==
  /\ pc \in TickReturned => (0 <= counter8s /\ counter8s < q8SecondBlocks)
  /\ pc = "es_test" => counter8s <= q8SecondBlocks
  /\ pc \in InPrimitive \cup {"action", "act_set"} => counter8s = 0

\* a step that changes the state or the threshold leaves the counter at 0
C3_Step ==
  (SpotGPSState' # SpotGPSState \/ q8SecondBlocks' # q8SecondBlocks)
     => counter8s' = 0

\* C3: whenever EightSeconds() has returned 0 <= counter8s < q8SecondBlocks,
\* inside it the incremented counter never exceeds q8SecondBlocks, and
\* counter8s is 0 immediately after any transition
C3_Thm == [] C3_Inv /\ [][C3_Step]_vars

\* the counter has just reached the long off threshold, after the
\* threshold went from 1 to kSpotOnTime to kSpotOffTime
C3_Wit ==
  /\ pc = "es_test"
  /\ q8SecondBlocks = kSpotOffTime
  /\ counter8s = q8SecondBlocks
  /\ Len(log) >= 3

----------------------------------------------------------------------------
(* C4 *)

\* the step that ends the test of EightSeconds(): action() is entered iff
\* the incremented counter has reached the threshold; otherwise nothing
\* but the position changes (the counter keeps its incremented value)
C4_Step ==
  pc = "es_test" /\ pc' # "es_test" =>
     IF counter8s >= q8SecondBlocks
       THEN pc' = "action" /\ nAction' = 1
       ELSE /\ pc' = "es_ret"
            /\ nAction' = 0
            /\ UNCHANGED <<counter8s, SpotGPSState, q8SecondBlocks, lines,
                           device, log>>

\* at most one invocation of action() per tick, primitives run only in a
\* tick that invoked action(), and at most one primitive is logged per tick
C4_Inv ==
  /\ nAction \in {0, 1}
  /\ pc \in InPrimitive \cup {"action", "act_set"} => nAction = 1
  /\ \A i, j \in 1..Len(log) : i < j => log[i].tick < log[j].tick
  /\ (pc \in TickReturned /\ nAction = 0 /\ Len(log) >= 1)
        => Last(log).tick < ticks

\* C4: each EightSeconds() invokes action() at most once, exactly once when
\* the incremented counter8s >= q8SecondBlocks and not at all otherwise; a
\* tick below the threshold changes only counter8s
C4_Thm == [] C4_Inv /\ [][C4_Step]_vars

\* a tick below the threshold has returned, in the middle of a long dwell
C4_Wit ==
  /\ pc = "es_ret"
  /\ nAction = 0
  /\ counter8s = 37
  /\ q8SecondBlocks = kSpotOffTime
  /\ Last(log).tick + 37 = ticks

----------------------------------------------------------------------------
(* C5 *)

\* the first i entries of the log are the first i entries of sched
FollowsSchedule(sched) ==
  \A i \in 1..Len(log) :
     i <= Len(sched) => (log[i].tick = sched[i][1] /\ log[i].prim = sched[i][2])

\* C5 as stated: the primitives of the first cycle fire at ticks
\* 1, 39, 99, 100, 138 and 198
C5_Orig ==
  FollowsSchedule(<< <<1,   "Spot_Turn_On">>,
                     <<39,  "Spot_Message_OK">>,
                     <<99,  "Spot_Turn_Off">>,
                     <<100, "Spot_Turn_On">>,
                     <<138, "Spot_Message_Custom">>,
                     <<198, "Spot_Turn_Off">> >>)

\* C5 amended: the primitives of the first cycle fire at ticks 1 (on),
\* 2 (message OK), 40 (off), 100 (on), 101 (message Custom) and 139 (off):
\* each dwell is the threshold of the state just entered
C5_Thm ==
  FollowsSchedule(<< <<1,   "Spot_Turn_On">>,
                     <<2,   "Spot_Message_OK">>,
                     <<40,  "Spot_Turn_Off">>,
                     <<100, "Spot_Turn_On">>,
                     <<101, "Spot_Message_Custom">>,
                     <<139, "Spot_Turn_Off">> >>)

\* the sixth primitive of the first cycle has fired and returned
C5_Wit ==
  /\ Len(log) = 6
  /\ pc = "es_ret"
  /\ ticks = Last(log).tick

----------------------------------------------------------------------------
(* C6 *)

\* the tick has been processed up to the call of its primitive, if any
TickDispatched(t) ==
  \/ t < ticks
  \/ t = ticks /\ pc \notin {"es_test", "action"}

\* C6: the firing pattern repeats every 198 ticks: a primitive fired at
\* tick t fires again at tick t + 198, as the sixth firing after it, and
\* what fires in between is the rest of one cycle
C6_Thm ==
  \A i \in 1..Len(log) :
     /\ TickDispatched(log[i].tick + 198) => i + 6 <= Len(log)
     /\ i + 6 <= Len(log) =>
           /\ log[i + 6].tick = log[i].tick + 198
           /\ log[i + 6].prim = log[i].prim
           /\ \A k \in 1..5 : log[i].tick < log[i + k].tick
                              /\ log[i + k].tick < log[i + 6].tick
           /\ [ k \in 1..6 |-> log[i + k - 1].prim ] \in
                 { [ k \in 1..6 |-> CycleOrder[((k + j) % 6) + 1] ]
                     : j \in 0..5 }

\* the first primitive of the second cycle has fired, one period after
\* the first primitive of the first
C6_Wit ==
  /\ Len(log) = 7
  /\ log[7].tick = log[1].tick + 198
  /\ pc = "es_ret"

----------------------------------------------------------------------------
(* C7 *)

\* C7 as stated: once 1 + N + 1 + N ticks have been delivered from cold
\* start the machine is back in Power_Off with the full cycle done
C7_Orig ==
  (ticks = 1 + kSpotOnTime + 1 + kSpotOnTime /\ pc \in TickReturned)
     => (SpotGPSState = Power_Off /\ Len(log) = 6)

\* C7 amended: the machine is back in Power_Off, the full cycle done,
\* once exactly 1 + 1 + N + M + 1 + N ticks have been delivered, and not
\* before: the off dwell M between the two halves counts
C7_Thm ==
  (ticks >= 1 /\ pc \in TickReturned) =>
     /\ ticks < 1 + 1 + kSpotOnTime + kSpotOffTime + 1 + kSpotOnTime
           => (SpotGPSState # Power_Off /\ Len(log) < 6)
     /\ ticks = 1 + 1 + kSpotOnTime + kSpotOffTime + 1 + kSpotOnTime
           => /\ SpotGPSState = Power_Off
              /\ Len(log) = 6
              /\ [ i \in 1..6 |-> log[i].prim ] = CycleOrder

\* the tick that completes the first cycle has returned
C7_Wit ==
  /\ ticks = 1 + 1 + kSpotOnTime + kSpotOffTime + 1 + kSpotOnTime
  /\ pc = "es_ret"
  /\ SpotGPSState = Power_Off

----------------------------------------------------------------------------
(* C8 *)

\* the power primitive that is running, if one is
InTurnOn == pc \in {"on_check", "on_poll", "on_wait"}
InTurnOff == pc \in {"off_check", "off_poll", "off_wait"}

\* the running primitive was also the one invoked just before it
SecondInARow == Len(log) >= 2 /\ log[Len(log) - 1].prim = Last(log).prim

\* Spot_Turn_On entered with the sense line HIGH returns at once and
\* drives no line; Spot_Turn_Off entered with the sense line LOW likewise
C8_NoPress ==
  /\ (pc = "on_check" /\ SpotOn3VSense = "HIGH" /\ pc' # pc)
        => (pc' = "act_set" /\ UNCHANGED <<lines, device>>)
  /\ (pc = "off_check" /\ SpotOn3VSense = "LOW" /\ pc' # pc)
        => (pc' = "act_set" /\ UNCHANGED <<lines, device>>)

\* the second of two invocations in a row of the same power primitive
\* finds the level already reached and changes neither a line nor the device
C8_Twice ==
  ((InTurnOn \/ InTurnOff) /\ SecondInARow) =>
     /\ UNCHANGED <<lines, device>>
     /\ SpotOnOffButton = "INPUT"
     /\ InTurnOn => SpotOn3VSense = "HIGH"
     /\ InTurnOff => SpotOn3VSense = "LOW"
     /\ pc' \in {pc, "act_set"}

\* C8: power-on invoked while the feedback reads Powered asserts no line
\* and returns immediately, power-off invoked while it reads Unpowered
\* likewise; so either one invoked twice in a row has the effect of once
C8_Thm == [][C8_NoPress /\ C8_Twice]_vars

\* Spot_Turn_Off has returned a second time in a row, the first time
\* having switched the device off with a press
C8_Wit ==
  /\ pc = "act_set"
  /\ Len(log) = 2
  /\ log[1].prim = "Spot_Turn_Off"
  /\ log[2].prim = "Spot_Turn_Off"
  /\ devHandled
  /\ SpotOn3VSense = "LOW"

----------------------------------------------------------------------------
(* C9 *)

\* an invocation of action() with SpotGPSState outside the enumeration
\* runs Spot_Turn_Off and nothing else ...
C9_Inv ==
  (pc \in InPrimitive \cup {"act_set"} /\ SpotGPSState \notin SpotGPSState_Type)
     => /\ pc \in {"off_check", "off_poll", "off_wait", "act_set"}
        /\ nPrim = 1
        /\ Last(log).prim = "Spot_Turn_Off"
        /\ Last(log).state = SpotGPSState

\* ... and ends in Power_Off with the threshold kSpotOffTime
C9_Step ==
  (pc = "act_set" /\ pc' # pc /\ SpotGPSState \notin SpotGPSState_Type)
     => /\ SpotGPSState' = Power_Off
        /\ q8SecondBlocks' = kSpotOffTime
        /\ pc' = "es_ret"

\* from the recovered state the next invocation, if not forced elsewhere,
\* is the first row of the table: power-on, then Power_On, threshold 1
C9_Resume ==
  (pc = "act_set" /\ pc' # pc /\ Len(log) >= 2
     /\ log[Len(log) - 1].state \notin SpotGPSState_Type
     /\ Last(log).state = Power_Off)
     => /\ Last(log).prim = "Spot_Turn_On"
        /\ SpotGPSState' = Power_On
        /\ q8SecondBlocks' = 1

\* C9: with SpotGPSState outside the six defined states one action()
\* invokes power-off and no other primitive, then sets SpotGPSState to
\* Power_Off and q8SecondBlocks to kSpotOffTime; the cycle resumes from there
C9_Thm == [] C9_Inv /\ [][C9_Step /\ C9_Resume]_vars

\* an unrecognized state was recovered with a real press of the power
\* switch and the next invocation has switched the device on again
C9_Wit ==
  /\ pc = "es_ret"
  /\ Len(log) = 2
  /\ log[1].state \notin SpotGPSState_Type
  /\ log[2].state = Power_Off
  /\ SpotGPSState = Power_On
  /\ SpotOn3VSense = "HIGH"
  /\ devHandled

----------------------------------------------------------------------------
(* C10 *)

\* while a primitive runs, and until the assignments that follow it, the
\* state and the threshold are those of the entry to action()
C10_Inv ==
  pc \in InPrimitive \cup {"act_set"} =>
     /\ Len(log) >= 1
     /\ SpotGPSState = Last(log).state
     /\ q8SecondBlocks = Last(log).blocks
     /\ Last(log).prim = CycleOrder[SpotGPSState + 1]

\* no step taken inside a primitive writes the state or the threshold
C10_Step ==
  pc \in InPrimitive \cup {"action"}
     => UNCHANGED <<SpotGPSState, q8SecondBlocks>>

\* outside a transition the state names the primitive completed last
C10_Done ==
  (pc \notin InPrimitive \cup {"act_set"} /\ Len(log) >= 1)
     => /\ SpotGPSState = (Last(log).state + 1) % 6
        /\ Last(log).prim = CycleOrder[Last(log).state + 1]

\* C10: SpotGPSState names the action completed last, never one in
\* progress: while a primitive executes, also while it polls the feedback,
\* SpotGPSState and q8SecondBlocks hold their pre-transition values
C10_Thm == [] (C10_Inv /\ C10_Done) /\ [][C10_Step]_vars

\* Spot_Turn_Off is blocked polling a device that is still powered
C10_Wit ==
  /\ pc = "off_poll"
  /\ SpotOn3VSense = "HIGH"
  /\ SpotOnOffButton = "LOW"
  /\ SpotGPSState = Sending_Ok
  /\ q8SecondBlocks = kSpotOnTime

----------------------------------------------------------------------------
(* C11 *)

\* C11: the controller never gets stuck awake: after every wake, whatever
\* the device does, the processor eventually re-enters sleep
C11_Orig == (pc = "loop") ~> (pc = "sleep")

----------------------------------------------------------------------------
(* C12 *)

\* Spot_Turn_On is in its loop and the device is not powered, or
\* Spot_Turn_Off is in its loop and the device is still powered
BlockedOn == pc \in {"on_poll", "on_wait"} /\ SpotOn3VSense = "LOW"
BlockedOff == pc \in {"off_poll", "off_wait"} /\ SpotOn3VSense = "HIGH"

\* a step that leaves the feedback where it is leaves the primitive in its
\* loop with the power switch held, and the sketch's variables, the
\* watchdog and the history of ticks and primitives as they are
C12_Step ==
  ((BlockedOn \/ BlockedOff) /\ SpotOn3VSense' = SpotOn3VSense) =>
     /\ BlockedOn => BlockedOn'
     /\ BlockedOff => BlockedOff'
     /\ SpotOnOffButton = "LOW" /\ SpotOnOffButton' = "LOW"
     /\ UNCHANGED <<prog, wdtEnabled, fires, ticks, log, devHandled>>

\* C12: with an unresponsive device the power primitive never returns:
\* no timeout, no retry, the power-button line stays asserted, the
\* processor does not sleep and SpotGPSState, q8SecondBlocks and counter8s
\* do not change, for as long as the feedback stays at the unwanted level
C12_Thm == [][C12_Step]_vars

\* Spot_Turn_Off has been round its loop at least once and the device,
\* which has not answered the press, is still powered
C12_Wit ==
  /\ pc = "off_wait"
  /\ wdtFed
  /\ SpotOn3VSense = "HIGH"
  /\ ~devHandled
  /\ SpotOnOffButton = "LOW"
  /\ SpotGPSState = Sending_Ok

----------------------------------------------------------------------------
(* C13 *)

\* C13 as stated: EightSeconds() is never invoked more often than the
\* watchdog has fired, so not before the first sleep
C13_Orig == ticks <= fires

\* C13 amended: loop() invokes EightSeconds() first and sleeps afterwards,
\* so the first tick, and with it the first primitive, happens at cold
\* start before the first sleep; every later invocation follows a firing
\* of its own, and the invocations never exceed the firings plus one
C13_Thm ==
  /\ fires <= ticks
  /\ ticks <= fires + 1
  /\ (pc = "loop") <=> (ticks = fires)
  /\ (pc = "sleep" /\ fires = 0)
        => (ticks = 1 /\ Len(log) = 1 /\ log[1].tick = 1
            /\ log[1].prim = "Spot_Turn_On")

\* the first sleep is entered with one tick and one primitive done
C13_Wit ==
  /\ pc = "sleep"
  /\ fires = 0
  /\ ticks = 1
  /\ Len(log) = 1

----------------------------------------------------------------------------
(* C15 *)

\* the processor does not sleep with the watchdog disarmed
C15_Inv == pc = "sleep" => wdtEnabled

\* the interrupt only disarms the watchdog and wakes the processor; the
\* watchdog is armed again only on the way into sleep; an invocation of
\* EightSeconds() uses up the firing that woke the processor
C15_Step ==
  /\ fires' # fires =>
        /\ pc = "sleep" /\ pc' = "loop"
        /\ wdtEnabled /\ ~wdtEnabled'
        /\ UNCHANGED <<prog, lines, device, ticks, log>>
  /\ (~wdtEnabled /\ wdtEnabled') => pc' = "sleep"
  /\ ticks' # ticks => (ticks = fires /\ ticks' = fires' + 1)

----------------------------------------------------------------------------
(* C14 *)

\* C14: if the watchdog keeps firing and the device answers every press
\* of its power switch, every primitive invocation returns, each of the
\* six states is entered again and again, and Power_Off follows every
\* Sending_Custom
C14_Thm ==
  /\ \A p \in InPrimitive : (pc = p) ~> (pc = "act_set")
  /\ \A st \in SpotGPSState_Type : []<>(SpotGPSState = st)
  /\ (SpotGPSState = Sending_Custom) ~> (SpotGPSState = Power_Off)

\* the machine sleeps in Power_Off again, the device switched off by
\* the press that ended Sending_Custom
C14_Wit ==
  /\ pc = "sleep"
  /\ SpotGPSState = Power_Off
  /\ q8SecondBlocks = kSpotOffTime
  /\ SpotOn3VSense = "LOW"
  /\ devHandled

----------------------------------------------------------------------------
(* C16 *)

\* the power switch is held all the time the loop runs, and a power
\* primitive that has returned has released it, its last sample of the
\* feedback being the level it was to reach
C16_Inv ==
  /\ pc \in {"on_poll", "on_wait", "off_poll", "off_wait"}
        => SpotOnOffButton = "LOW"
  /\ (pc = "act_set" /\ Last(log).prim = "Spot_Turn_On")
        => (sample = "HIGH" /\ SpotOnOffButton = "INPUT")
  /\ (pc = "act_set" /\ Last(log).prim = "Spot_Turn_Off")
        => (sample = "LOW" /\ SpotOnOffButton = "INPUT")

\* the press follows a sample of the level to be left, before any poll;
\* the release follows a sample of the level to be reached
C16_Step ==
  /\ (SpotOnOffButton = "INPUT" /\ SpotOnOffButton' = "LOW") =>
        /\ pc \in {"on_check", "off_check"}
        /\ pc = "on_check" => (sample' = "LOW" /\ pc' = "on_poll")
        /\ pc = "off_check" => (sample' = "HIGH" /\ pc' = "off_poll")
  /\ (SpotOnOffButton = "LOW" /\ SpotOnOffButton' = "INPUT") =>
        /\ pc \in {"on_poll", "off_poll"}
        /\ pc' = "act_set"
        /\ pc = "on_poll" => (sample' = "HIGH" /\ SpotOn3VSense = "HIGH")
        /\ pc = "off_poll" => (sample' = "LOW" /\ SpotOn3VSense = "LOW")

\* C16: in power-on the power-button line is asserted first, then the
\* feedback is polled, and the line is released only after a sample reads
\* Powered; when power-on returns its last sample was Powered and the line
\* is released.  Symmetrically for power-off with Unpowered
C16_Thm == [] C16_Inv /\ [][C16_Step]_vars

\* Spot_Turn_On has returned after a press the device answered while the
\* loop went round at least once
C16_Wit ==
  /\ pc = "act_set"
  /\ Last(log).prim = "Spot_Turn_On"
  /\ Last(log).tick = 1
  /\ wdtFed
  /\ devHandled
  /\ sample = "HIGH"

----------------------------------------------------------------------------
(* C17 *)

\* the button lines that are driven
Asserted ==
  { b \in {"power", "ok", "custom"} :
      \/ b = "power" /\ SpotOnOffButton # "INPUT"
      \/ b = "ok" /\ SpotOkMsgButton # "INPUT"
      \/ b = "custom" /\ SpotCustomMsgButton # "INPUT" }

\* C17: a button line is asserted only while the primitive that owns it
\* is executing, at most one is asserted at any time, and whenever no
\* primitive is executing, so whenever the processor sleeps, all three
\* are released
C17_Thm ==
  /\ "power" \in Asserted
        => pc \in {"on_poll", "on_wait", "off_poll", "off_wait"}
  /\ "ok" \in Asserted => pc = "ok_hold"
  /\ "custom" \in Asserted => pc = "cu_hold"
  /\ Cardinality(Asserted) <= 1
  /\ pc \notin InPrimitive => Asserted = {}

\* the processor sleeps after a full cycle in which all three lines were
\* pressed, and none is driven
C17_Wit ==
  /\ pc = "sleep"
  /\ Len(log) = 6
  /\ devHandled
  /\ Asserted = {}

----------------------------------------------------------------------------
(* C18 *)

\* the watchdog is not armed while action() and its primitive run
C18_Inv ==
  pc \in InPrimitive \cup {"action", "act_set"} => ~wdtEnabled

\* every pass through the body of a poll loop ends with the watchdog fed,
\* and the watchdog fires in sleep only
C18_Step ==
  /\ (pc \in {"on_wait", "off_wait"} /\ pc' # pc) => wdtFed'
  /\ fires' # fires => (pc = "sleep" /\ pc' \notin InPrimitive)

\* C18: every iteration of the power-on and power-off poll loops feeds the
\* watchdog, and the watchdog cannot expire while a primitive executes,
\* the message holds that do not feed it included
C18_Thm == [] C18_Inv /\ [][C18_Step]_vars

\* a message button is being held, unfed, after a wake by the watchdog
C18_Wit ==
  /\ pc = "ok_hold"
  /\ fires >= 1
  /\ ~wdtFed
  /\ ~wdtEnabled

----------------------------------------------------------------------------
(* C19 *)

\* the threshold that goes with each state
BlocksOfState(st) ==
  CASE st \in {Power_On, Power_On_2}        -> 1
    [] st \in {Sending_Ok, Sending_Custom}  -> kSpotOnTime
    [] st \in {Power_Off_2, Power_Off}      -> kSpotOffTime

\* C19 as stated: the threshold is at least 1 and in every reachable state
\* the one that goes with the current state
C19_Orig ==
  /\ q8SecondBlocks >= 1
  /\ q8SecondBlocks = BlocksOfState(SpotGPSState)

\* the state and the threshold are written together, by the assignments
\* that end action(), and nowhere else
C19_Step ==
  (SpotGPSState' # SpotGPSState \/ q8SecondBlocks' # q8SecondBlocks)
     => /\ pc = "act_set" /\ pc' = "es_ret"
        /\ q8SecondBlocks' = BlocksOfState(SpotGPSState')

\* before the first transition the state is Power_Off with threshold 1;
\* after it the threshold is the one that goes with the state
C19_Inv ==
  /\ q8SecondBlocks >= 1
  /\ SpotGPSState \in SpotGPSState_Type
  /\ IF Completed = 0
       THEN SpotGPSState = Power_Off /\ q8SecondBlocks = 1
       ELSE q8SecondBlocks = BlocksOfState(SpotGPSState)

\* C19 amended: the threshold is always >= 1 and, once the first
\* transition is done, determined by the state alone (1, N, M as stated);
\* in the initial Power_Off of cold start it is 1; it is written only by
\* action(), once per transition
C19_Thm == [] C19_Inv /\ [][C19_Step]_vars

\* Power_Off entered by a transition: the threshold is the off time
C19_Wit ==
  /\ pc = "sleep"
  /\ SpotGPSState = Power_Off
  /\ Completed = 6
  /\ q8SecondBlocks = kSpotOffTime

----------------------------------------------------------------------------
(* C20 *)

\* C20: a device whose power changes only by its power switch is powered
\* whenever a message button is pressed and unpowered whenever the
\* processor sleeps in Power_Off or Power_Off_2
C20_Thm ==
  /\ pc \in {"ok_press", "ok_hold", "cu_press", "cu_hold"}
        => SpotOn3VSense = "HIGH"
  /\ (pc = "sleep" /\ SpotGPSState \in {Power_Off, Power_Off_2})
        => (Completed >= 1 /\ SpotOn3VSense = "LOW")

\* the processor sleeps in Power_Off_2 after the OK message, the device
\* switched off
C20_Wit ==
  /\ pc = "sleep"
  /\ SpotGPSState = Power_Off_2
  /\ Len(log) = 3
  /\ SpotOn3VSense = "LOW"
  /\ counter8s = 1

====
